---- MODULE Spec2Model ----
(***************************************************************************)
(* A model of py2700's Multimeter.py: the Multimeter lifecycle             *)
(* (define_channels, setup_scan, scan, set_temperature_units, disconnect)  *)
(* and the decoding of a scan reply by ScanResult.__init__.                *)
(*                                                                         *)
(* Numbers.  Python floats are modelled as exact decimals in fixed point:  *)
(* an integer n stands for n * 1e-6, so 1e-6 (the smallest constant of the *)
(* program) is 1 and 1.0 is 1000000.  Tokens of the model carry at most    *)
(* six fractional digits and no exponent part.                             *)
(*                                                                         *)
(* Strings that the program parses (reply, tokens) are sequences of        *)
(* one-character strings; strings that it only builds (commands) are TLA+  *)
(* strings.                                                                *)
(***************************************************************************)
EXTENDS Integers, Sequences, FiniteSets, TLC

VARIABLES
    channels,          \* self.channels: sequence of Channel records
    setup,             \* self.setup
    temperature_units, \* self.temperature_units
    first_scan,        \* self.first_scan
    last_scan_result,  \* self.last_scan_result: <<>> while the attribute is unset, else <<ScanResult>>
    list_of_channels_str, \* self.list_of_channels_str ("" while unset)
    sent,              \* what the last operation sent to self.device, in order
    call,              \* the last operation: its name, arguments and outcome
    nscans             \* number of scan() calls made so far

vars == <<channels, setup, temperature_units, first_scan, last_scan_result,
          list_of_channels_str, sent, call, nscans>>

-----------------------------------------------------------------------------
(* Bounds of the model *)

MaxChannels == 2
MaxTokens == 6
MaxScans == 2
MaxSessionScans == 3

-----------------------------------------------------------------------------
(* Fixed-point numbers *)

FracDigits == 6

RECURSIVE Pow10(_)
Pow10(n) == IF n = 0 THEN 1 ELSE 10 * Pow10(n - 1)

\* 1e-6, the value a zero device time is forced to
MinDeviceTime == 1

\* Python's round(x, ndigits) on a float x: the nearest multiple of
\* 10^-ndigits, a tie going to the even multiple.
round(x, ndigits) ==
    LET q     == Pow10(FracDigits - ndigits)
        r     == x % q
        floor == x - r
    IN  IF 2 * r < q THEN floor
        ELSE IF 2 * r > q THEN floor + q
        ELSE IF (floor \div q) % 2 = 0 THEN floor ELSE floor + q

-----------------------------------------------------------------------------
(* convert_to_float: the first numeric literal of a string *)

Digits == {"0", "1", "2", "3", "4", "5", "6", "7", "8", "9"}

DigitVal(c) ==
    CASE c = "0" -> 0 [] c = "1" -> 1 [] c = "2" -> 2 [] c = "3" -> 3
      [] c = "4" -> 4 [] c = "5" -> 5 [] c = "6" -> 6 [] c = "7" -> 7
      [] c = "8" -> 8 [] c = "9" -> 9

IsDigitAt(s, i) == i >= 1 /\ i <= Len(s) /\ s[i] \in Digits

\* the first position at or after i that holds no digit (\d* from i)
RECURSIVE DigitRunEnd(_, _)
DigitRunEnd(s, i) == IF IsDigitAt(s, i) THEN DigitRunEnd(s, i + 1) ELSE i

\* the digits s[i..j-1] read as an integer
RECURSIVE IntOf(_, _, _)
IntOf(s, i, j) ==
    IF i >= j THEN 0 ELSE IntOf(s, i, j - 1) * 10 + DigitVal(s[j - 1])

\* the digits s[i..j-1] read as a fraction, in units of 1e-6
FracOf(s, i, j) ==
    LET n == j - i
    IN  IF n <= FracDigits THEN IntOf(s, i, j) * Pow10(FracDigits - n)
        ELSE IntOf(s, i, i + FracDigits)

\* (\d+(\.\d*)?|\.\d+) anchored at i: whether it matches, and its value
BodyMatches(s, i) ==
    IsDigitAt(s, i) \/ (i <= Len(s) /\ s[i] = "." /\ IsDigitAt(s, i + 1))

BodyValue(s, i) ==
    IF IsDigitAt(s, i)
    THEN LET j == DigitRunEnd(s, i)
         IN  IF j <= Len(s) /\ s[j] = "."
             THEN IntOf(s, i, j) * Pow10(FracDigits)
                  + FracOf(s, j + 1, DigitRunEnd(s, j + 1))
             ELSE IntOf(s, i, j) * Pow10(FracDigits)
    ELSE FracOf(s, i + 1, DigitRunEnd(s, i + 1))

\* the pattern anchored at i, sign included
MatchesAt(s, i) ==
    \/ (i <= Len(s) /\ s[i] \in {"+", "-"} /\ BodyMatches(s, i + 1))
    \/ BodyMatches(s, i)

ValueAt(s, i) ==
    IF s[i] = "-" /\ BodyMatches(s, i + 1) THEN 0 - BodyValue(s, i + 1)
    ELSE IF s[i] = "+" /\ BodyMatches(s, i + 1) THEN BodyValue(s, i + 1)
    ELSE BodyValue(s, i)

\* re.search: the leftmost position where the pattern matches, 0 if none
RECURSIVE SearchFrom(_, _)
SearchFrom(s, i) ==
    IF i > Len(s) THEN 0
    ELSE IF MatchesAt(s, i) THEN i
    ELSE SearchFrom(s, i + 1)

\* convert_to_float raises ValueError when there is no match
HasNumber(s) == SearchFrom(s, 1) # 0

convert_to_float(s) == ValueAt(s, SearchFrom(s, 1))

-----------------------------------------------------------------------------
(* str.split(",") and str.strip() *)

\* position of the first "," of s at or after i, Len(s) + 1 if none
RECURSIVE NextComma(_, _)
NextComma(s, i) ==
    IF i > Len(s) THEN i
    ELSE IF s[i] = "," THEN i
    ELSE NextComma(s, i + 1)

RECURSIVE SplitFrom(_, _)
SplitFrom(s, i) ==
    LET j == NextComma(s, i)
    IN  IF j > Len(s) THEN << SubSeq(s, i, Len(s)) >>
        ELSE << SubSeq(s, i, j - 1) >> \o SplitFrom(s, j + 1)

split(s) == SplitFrom(s, 1)

RECURSIVE strip(_)
strip(s) ==
    IF s = << >> THEN s
    ELSE IF Head(s) = " " THEN strip(Tail(s))
    ELSE IF s[Len(s)] = " " THEN strip(SubSeq(s, 1, Len(s) - 1))
    ELSE s

-----------------------------------------------------------------------------
(* MeasurementType, Channel, Measurement *)

\* The measurement types a caller passes to define_channels: a function name
\* and the command templates of that measurement mode.
DCVolts ==
    [function |-> "VOLT", setup_commands |-> <<"FUNC 'VOLT:DC'", "VOLT:DC:NPLC 1">>]

Thermocouple ==
    [function |-> "TEMP", setup_commands |-> <<"FUNC 'TEMP'", "TEMP:TRAN TC", "TEMP:TC:TYPE K">>]

\* a Channel whose commands are the templates, without the channel qualifier
Channel_Unqualified(id, measurement_type, unit) ==
    [id |-> id,
     measurement_type |-> measurement_type,
     unit |-> unit,
     setup_commands |-> measurement_type.setup_commands]

\* Channel.__init__
Channel(id, measurement_type, unit) ==
    [id |-> id,
     measurement_type |-> measurement_type,
     unit |-> unit,
     setup_commands |->
        [i \in DOMAIN measurement_type.setup_commands |->
            measurement_type.setup_commands[i] \o ",(@" \o ToString(id) \o ")"]]

\* Measurement.__init__
Measurement(channel, time, value) ==
    [channel_id |-> channel.id, time |-> time, value |-> value, unit |-> channel.unit]

-----------------------------------------------------------------------------
(* ScanResult.__init__ *)

\* the locals and fields of ScanResult.__init__ before its loop; error is the
\* exception the constructor has raised ("" while it has raised none)
DecodeStart(timestamp) ==
    [entry_index |-> 0, channel_index |-> 0, last_value |-> 0,
     timestamp |-> timestamp, device_time |-> 0, readings |-> << >>,
     error |-> ""]

\* self.readings[key] = m
DictPut(readings, key, m) ==
    [k \in (DOMAIN readings) \cup {key} |-> IF k = key THEN m ELSE readings[k]]

\* ElapsedTime without the test "self.timestamp != 0": the subtraction is
\* made on the first scan too
ElapsedTime_AlwaysSubtract(timestamp, t, user_timestamp) ==
    IF ~user_timestamp THEN t - timestamp ELSE timestamp

\* ElapsedTime without the test "not user_timestamp": the device time is
\* subtracted in explicit mode too
ElapsedTime_IgnoreUser(timestamp, t, user_timestamp) ==
    IF timestamp # 0 THEN t - timestamp ELSE timestamp

\* self.timestamp after the time token t (lines 107-109): in automatic mode
\* with a timestamp other than 0 it becomes t - self.timestamp, otherwise it
\* stays as it is
ElapsedTime(timestamp, t, user_timestamp) ==
    IF ~user_timestamp /\ timestamp # 0 THEN t - timestamp ELSE timestamp

\* self.device_time after the time token t (lines 107, 110-113)
DeviceTime(device_time, t, user_timestamp) ==
    IF user_timestamp THEN device_time
    ELSE IF t = 0 THEN MinDeviceTime ELSE t

\* the body of the loop "for entry in raw_result": entry 3k is a value token,
\* entry 3k+1 a time token (the reading of channel k is stored there), entry
\* 3k+2 is skipped.  The time token is converted in automatic mode only.
DecodeEntry(st, entry, chans, rounding, user_timestamp) ==
    IF st.error # "" THEN st
    ELSE IF st.entry_index % 3 = 0 THEN
        IF ~HasNumber(entry) THEN [st EXCEPT !.error = "ValueError"]
        ELSE [st EXCEPT !.last_value = convert_to_float(entry),
                        !.entry_index = @ + 1]
    ELSE IF st.entry_index % 3 = 1 THEN
        IF ~user_timestamp /\ ~HasNumber(entry)
        THEN [st EXCEPT !.error = "ValueError"]
        ELSE IF st.channel_index >= Len(chans)
        THEN [st EXCEPT !.error = "IndexError"]
        ELSE
          LET t  == IF user_timestamp THEN 0 ELSE convert_to_float(entry)
              ts == ElapsedTime(st.timestamp, t, user_timestamp)
          IN  [st EXCEPT
                  !.timestamp = ts,
                  !.device_time = DeviceTime(@, t, user_timestamp),
                  !.readings = DictPut(@, chans[st.channel_index + 1].id,
                                 Measurement(chans[st.channel_index + 1],
                                             round(ts, rounding),
                                             st.last_value)),
                  !.channel_index = @ + 1,
                  !.entry_index = @ + 1]
    ELSE [st EXCEPT !.entry_index = @ + 1]

RECURSIVE DecodeLoop(_, _, _, _, _)
DecodeLoop(st, raw_result, chans, rounding, user_timestamp) ==
    IF raw_result = << >> THEN st
    ELSE DecodeLoop(DecodeEntry(st, Head(raw_result), chans, rounding, user_timestamp),
                    Tail(raw_result), chans, rounding, user_timestamp)

\* ScanResult(channels, raw_result, timestamp, rounding, user_timestamp): the
\* object built, or the exception raised (error # "")
ScanResult(chans, raw_result, timestamp, rounding, user_timestamp) ==
    LET st == DecodeLoop(DecodeStart(timestamp), raw_result, chans, rounding,
                         user_timestamp)
    IN  [error |-> st.error,
         raw_result |-> raw_result,
         channels |-> chans,
         readings |-> st.readings,
         timestamp |-> st.timestamp,
         device_time |-> st.device_time]

-----------------------------------------------------------------------------
(* Inputs of the model *)

\* the (channel_ids, measurement_type) arguments of define_channels: one
\* channel, and two channels of another type; defining the first twice
\* gives a list with a repeated id
ChannelDefinitions ==
    { << <<101>>, DCVolts >>, << <<101, 102>>, Thermocouple >> }

\* temperature_units arguments
UnitArguments == {"c", "K", "x"}

\* a comparison of the argument as it was written, case included
upper_Identity(u) == u

\* str.upper() on the unit arguments of the model
upper(u) == CASE u = "c" -> "C" [] u = "f" -> "F" [] u = "k" -> "K" [] OTHER -> u

\* timestamp and rounding arguments of scan(); 0 is scan's default timestamp,
\* 2500000 is 2.5
ScanTimestamps == {0, 2500000}
Roundings == {0, 2}

\* tokens of a scan reply: value, device time, echo; NoNumber holds no
\* numeric literal
ValueToken == <<"7", "V">>
NoNumber   == <<"S">>
TimeTokens == { <<"1">>, <<"2", ".", "5", "S">> }
EchoToken  == <<" ", "R">>

RECURSIVE JoinComma(_)
JoinComma(tokens) ==
    IF tokens = << >> THEN << >>
    ELSE IF Len(tokens) = 1 THEN tokens[1]
    ELSE tokens[1] \o <<",">> \o JoinComma(Tail(tokens))

\* the number of (value, time, echo) triples that MaxTokens tokens touch
ReplyTriples == (MaxTokens + 2) \div 3

\* the first n tokens of the triples whose time tokens are times[1], times[2], ...
ReplyTokens(times, n) ==
    [i \in 1..n |->
        CASE (i - 1) % 3 = 0 -> ValueToken
          [] (i - 1) % 3 = 1 -> times[((i - 1) \div 3) + 1]
          [] OTHER -> EchoToken]

\* tokens with the p-th replaced by token
Replaced(tokens, p, token) == [i \in DOMAIN tokens |-> IF i = p THEN token ELSE tokens[i]]

\* one and two whole triples with the time token 1
OneTriple  == ReplyTokens([k \in 1..2 |-> <<"1">>], 3)
TwoTriples == ReplyTokens([k \in 1..2 |-> <<"1">>], 6)

\* replies with a value token or a time token that holds no number
GarbledReplies ==
    { JoinComma(Replaced(OneTriple, 1, NoNumber)),
      JoinComma(Replaced(OneTriple, 2, NoNumber)),
      JoinComma(Replaced(TwoTriples, 5, NoNumber)) }

\* replies of an instrument whose clock reads 0
ZeroTime == <<"0", ".", "0">>

ZeroClockReplies ==
    { JoinComma(Replaced(OneTriple, 2, ZeroTime)),
      JoinComma(Replaced(TwoTriples, 5, ZeroTime)) }

\* the reply lines self.device.query("READ?") can return: whole triples cut
\* after any number of tokens up to MaxTokens, the garbled replies and the
\* replies with a zero clock
Replies ==
    { JoinComma(ReplyTokens(times, n)) :
        times \in [1..ReplyTriples -> TimeTokens], n \in 0..MaxTokens }
    \cup GarbledReplies \cup ZeroClockReplies

\* one well-formed reply for every channel count of the model
PlainReplies ==
    { JoinComma(ReplyTokens([k \in 1..MaxChannels |-> <<"1">>], 3 * n)) :
        n \in 1..MaxChannels }

-----------------------------------------------------------------------------
(* The record of the last operation *)

\* (arg is the argument of a set_temperature_units call)
Call(op, status) ==
    [op |-> op, status |-> status, arg |-> "", path |-> "", timestamp |-> 0,
     rounding |-> 0, passed |-> 0, user_timestamp |-> FALSE]

\* a scan() call: path is the branch of scan() taken, passed and
\* user_timestamp are the arguments it handed to get_scan_result
ScanCall(status, path, timestamp, rounding, passed, user_timestamp) ==
    [op |-> "scan", status |-> status, arg |-> "", path |-> path, timestamp |-> timestamp,
     rounding |-> rounding, passed |-> passed, user_timestamp |-> user_timestamp]

-----------------------------------------------------------------------------
(* Multimeter *)

\* the writes of Multimeter.__init__
InitCommands ==
    <<"*RST", "*CLS", "TRAC:CLE", "DISP:TEXT:STAT ON", "DISP:TEXT:DATA 'READY'">>

Init ==
    /\ channels = << >>
    /\ setup = FALSE
    /\ temperature_units = "C"
    /\ first_scan = TRUE
    /\ last_scan_result = << >>
    /\ list_of_channels_str = ""
    /\ sent = InitCommands
    /\ call = Call("__init__", "ok")
    /\ nscans = 0

\* the outcome of a set_temperature_units(arg) call
UnitCall(arg, status) == [Call("set_temperature_units", status) EXCEPT !.arg = arg]

\* a set_temperature_units that also rewrites the unit of the temperature
\* channels defined so far
set_temperature_units_Retroactive(arg, write_fails) ==
    LET u == upper(arg)
    IN  /\ UNCHANGED <<setup, first_scan, last_scan_result,
                       list_of_channels_str, nscans>>
        /\ IF u \notin {"K", "F", "C"}
           THEN /\ call' = UnitCall(arg, "invalid_unit_exception")
                /\ sent' = << >>
                /\ UNCHANGED <<temperature_units, channels>>
           ELSE /\ temperature_units' = u
                /\ channels' =
                      [i \in DOMAIN channels |->
                          IF channels[i].measurement_type.function = "TEMP"
                          THEN [channels[i] EXCEPT !.unit = u]
                          ELSE channels[i]]
                /\ sent' = IF write_fails THEN << >> ELSE << "UNIT:TEMP " \o u >>
                /\ call' = UnitCall(arg, IF write_fails THEN "VisaIOError" ELSE "ok")

\* set_temperature_units(temperature_units); write_fails: the transport
\* raises on the write
set_temperature_units(arg, write_fails) ==
    LET u == upper(arg)
    IN  /\ UNCHANGED <<channels, setup, first_scan, last_scan_result,
                       list_of_channels_str, nscans>>
        /\ IF u \notin {"K", "F", "C"}
           THEN /\ call' = UnitCall(arg, "invalid_unit_exception")
                /\ sent' = << >>
                /\ UNCHANGED temperature_units
           ELSE /\ temperature_units' = u
                /\ sent' = IF write_fails THEN << >> ELSE << "UNIT:TEMP " \o u >>
                /\ call' = UnitCall(arg, IF write_fails THEN "VisaIOError" ELSE "ok")

\* the unit define_channels resolves for a measurement type
UnitOf(measurement_type) ==
    CASE measurement_type.function = "TEMP" -> temperature_units
      [] measurement_type.function = "VOLT" -> "V"
      [] measurement_type.function = "CURR" -> "A"
      [] measurement_type.function = "RES"  -> "Ohms"
      [] OTHER -> ""

\* define_channels(channel_ids, measurement_type)
define_channels(channel_ids, measurement_type) ==
    /\ Len(channels) + Len(channel_ids) <= MaxChannels
    /\ channels' = channels \o
          [i \in DOMAIN channel_ids |->
              Channel(channel_ids[i], measurement_type, UnitOf(measurement_type))]
    /\ sent' = << >>
    /\ call' = Call("define_channels", "ok")
    /\ UNCHANGED <<setup, temperature_units, first_scan, last_scan_result,
                   list_of_channels_str, nscans>>

\* "101,102": str(ch) of every channel, comma separated
RECURSIVE ListOfChannelsStr(_)
ListOfChannelsStr(chans) ==
    IF chans = << >> THEN ""
    ELSE IF Len(chans) = 1 THEN ToString(chans[1].id)
    ELSE ToString(chans[1].id) \o "," \o ListOfChannelsStr(Tail(chans))

RECURSIVE ChannelCommands(_)
ChannelCommands(chans) ==
    IF chans = << >> THEN << >>
    ELSE chans[1].setup_commands \o ChannelCommands(Tail(chans))

\* the writes of setup_scan, in order
SetupCommands(chans) ==
    <<"TRAC:CLE", "INIT:CONT OFF", "TRIG:COUN 1">>
    \o ChannelCommands(chans)
    \o << "SAMP:COUN " \o ToString(Len(chans)),
          "ROUT:SCAN (@" \o ListOfChannelsStr(chans) \o ")",
          "ROUT:SCAN:TSO IMM", "ROUT:SCAN:LSEL INT" >>

\* a setup_scan that also starts a new scan session
setup_scan_NewSession(fail_at) ==
    /\ UNCHANGED <<channels, temperature_units, last_scan_result, nscans>>
    /\ IF Len(channels) <= 0
       THEN /\ fail_at = 0
            /\ call' = Call("setup_scan", "no_channels_exception")
            /\ sent' = << >>
            /\ UNCHANGED <<setup, list_of_channels_str, first_scan>>
       ELSE /\ list_of_channels_str' = ListOfChannelsStr(channels)
            /\ IF fail_at = 0
               THEN /\ sent' = SetupCommands(channels)
                    /\ setup' = TRUE
                    /\ first_scan' = TRUE
                    /\ call' = Call("setup_scan", "ok")
               ELSE /\ sent' = SubSeq(SetupCommands(channels), 1, fail_at - 1)
                    /\ UNCHANGED <<setup, first_scan>>
                    /\ call' = Call("setup_scan", "VisaIOError")

\* setup_scan without the test "if len(self.channels) <= 0"
setup_scan_Unchecked(fail_at) ==
    /\ UNCHANGED <<channels, temperature_units, first_scan, last_scan_result, nscans>>
    /\ list_of_channels_str' = ListOfChannelsStr(channels)
    /\ IF fail_at = 0
       THEN /\ sent' = SetupCommands(channels)
            /\ setup' = TRUE
            /\ call' = Call("setup_scan", "ok")
       ELSE /\ sent' = SubSeq(SetupCommands(channels), 1, fail_at - 1)
            /\ UNCHANGED setup
            /\ call' = Call("setup_scan", "VisaIOError")

\* setup_scan(); fail_at = k > 0: the transport raises on the k-th write
setup_scan(fail_at) ==
    /\ UNCHANGED <<channels, temperature_units, first_scan, last_scan_result, nscans>>
    /\ IF Len(channels) <= 0
       THEN /\ fail_at = 0
            /\ call' = Call("setup_scan", "no_channels_exception")
            /\ sent' = << >>
            /\ UNCHANGED <<setup, list_of_channels_str>>
       ELSE /\ list_of_channels_str' = ListOfChannelsStr(channels)
            /\ IF fail_at = 0
               THEN /\ sent' = SetupCommands(channels)
                    /\ setup' = TRUE
                    /\ call' = Call("setup_scan", "ok")
               ELSE /\ sent' = SubSeq(SetupCommands(channels), 1, fail_at - 1)
                    /\ UNCHANGED setup
                    /\ call' = Call("setup_scan", "VisaIOError")

\* [x.strip() for x in reply.split(",")]
RawResult(reply) == LET parts == split(reply) IN [i \in DOMAIN parts |-> strip(parts[i])]

\* get_scan_result: the ScanResult built from the reply, or the exception
\* raised by the query or by the constructor (error # "")
get_scan_result(timestamp, rounding, user_timestamp, query_fails, reply) ==
    IF query_fails THEN [error |-> "VisaIOError"]
    ELSE ScanResult(channels, RawResult(reply), timestamp, rounding, user_timestamp)

\* the object without the model's error field
Object(r) == [x \in (DOMAIN r) \ {"error"} |-> r[x]]

\* the effect of "return self.get_scan_result(...)" on the Multimeter
ReturnScanResult(path, timestamp, rounding, passed, user_timestamp, query_fails, reply) ==
    \E r \in {get_scan_result(passed, rounding, user_timestamp, query_fails, reply)} :
        /\ sent' = <<"READ?">>
        /\ last_scan_result' =
              IF r.error = "" THEN << Object(r) >> ELSE last_scan_result
        /\ call' = ScanCall(IF r.error = "" THEN "ok" ELSE r.error, path,
                            timestamp, rounding, passed, user_timestamp)

\* a baseline that is the device time of the last scan
FormerTime_LastDeviceTime(result) == result.device_time

\* former_time of scan(): the device time at which the last result's clock
\* read zero
FormerTime(result) == result.device_time - result.timestamp

\* scan() past its guard (lines 333-345)
ScanBranches(timestamp, rounding, query_fails, reply) ==
    IF first_scan /\ timestamp = 0
    THEN /\ first_scan' = FALSE
         /\ ReturnScanResult("first", timestamp, rounding, timestamp, FALSE,
                             query_fails, reply)
    ELSE IF ~first_scan /\ timestamp = 0
    THEN /\ UNCHANGED first_scan
         /\ IF last_scan_result = << >>
            THEN \* self.last_scan_result was never assigned
                 /\ call' = ScanCall("AttributeError", "former", timestamp, rounding, 0, FALSE)
                 /\ sent' = << >>
                 /\ UNCHANGED last_scan_result
            ELSE ReturnScanResult("former", timestamp, rounding,
                     FormerTime(last_scan_result[1]), FALSE, query_fails, reply)
    ELSE /\ first_scan' = FALSE
         /\ ReturnScanResult("user", timestamp, rounding, timestamp, TRUE,
                             query_fails, reply)

\* scan without the test "if not self.setup"
scan_Unguarded(timestamp, rounding, query_fails, reply) ==
    /\ nscans' = nscans + 1
    /\ UNCHANGED <<channels, setup, temperature_units, list_of_channels_str>>
    /\ ScanBranches(timestamp, rounding, query_fails, reply)

\* scan(timestamp, rounding); query_fails: the transport raises on the query,
\* otherwise it returns reply (the number of scans of a behaviour is bounded
\* where the specifications call scan)
scan(timestamp, rounding, query_fails, reply) ==
    /\ nscans' = nscans + 1
    /\ UNCHANGED <<channels, setup, temperature_units, list_of_channels_str>>
    /\ IF ~setup
       THEN /\ call' = ScanCall("not_set_up_exception", "", timestamp, rounding, 0, FALSE)
            /\ sent' = << >>
            /\ UNCHANGED <<first_scan, last_scan_result>>
       ELSE ScanBranches(timestamp, rounding, query_fails, reply)

\* the writes of disconnect (display("CLOSING") first)
DisconnectCommands ==
    <<"DISP:TEXT:DATA 'CLOSING'", "DISP:TEXT:STAT OFF", "ROUT:OPEN:ALL">>

\* disconnect()
disconnect ==
    /\ sent' = DisconnectCommands
    /\ call' = Call("disconnect", "ok")
    /\ UNCHANGED <<channels, setup, temperature_units, first_scan,
                   last_scan_result, list_of_channels_str, nscans>>

\* The scanning engine: channels are defined and set up, then scanned with
\* every reply of the model.
Next ==
    \/ \E d \in ChannelDefinitions : define_channels(d[1], d[2])
    \/ setup_scan(0)
    \/ /\ nscans < MaxScans
       /\ \E t \in ScanTimestamps, r \in Roundings, reply \in Replies :
             scan(t, r, FALSE, reply)
    \/ /\ nscans < MaxScans
       /\ \E t \in ScanTimestamps, r \in Roundings : scan(t, r, TRUE, << >>)

Spec == Init /\ [][Next]_vars

\* The lifecycle: every operation in every order, with transport failures,
\* scanned with well-formed replies.
NextLifecycle ==
    \/ \E u \in UnitArguments, f \in BOOLEAN : set_temperature_units(u, f)
    \/ \E d \in ChannelDefinitions : define_channels(d[1], d[2])
    \/ \E k \in {0, 1, Len(SetupCommands(channels))} : setup_scan(k)
    \/ /\ nscans < MaxScans
       /\ \E t \in ScanTimestamps, r \in Roundings, reply \in PlainReplies :
             scan(t, r, FALSE, reply)
    \/ /\ nscans < MaxScans
       /\ \E t \in ScanTimestamps, r \in Roundings : scan(t, r, TRUE, << >>)
    \/ disconnect

SpecLifecycle == Init /\ [][NextLifecycle]_vars

\* replies to a scan of one channel, cut after the time token, whole, and
\* with one token more; every device time in them is nonzero
SessionTimeTokens == TimeTokens \cup { <<"4">> }

SessionReplies ==
    { JoinComma(ReplyTokens([k \in 1..2 |-> t], n)) :
        t \in SessionTimeTokens, n \in 2..4 }

\* A session of automatic scans (scan's default timestamp), longer than the
\* scans of the other two specifications.
NextSession ==
    \/ define_channels(<<101>>, DCVolts)
    \/ setup_scan(0)
    \/ /\ nscans < MaxSessionScans
       /\ \E r \in Roundings, reply \in SessionReplies : scan(0, r, FALSE, reply)
    \/ /\ nscans < MaxSessionScans
       /\ \E r \in Roundings : scan(0, r, TRUE, << >>)

SpecSession == Init /\ [][NextSession]_vars

-----------------------------------------------------------------------------
(* Properties *)

\* a step that is a scan() call
ScanStep == nscans' = nscans + 1

\* the last operation was a scan() that returned a ScanResult
ScanReturned == call.op = "scan" /\ call.status = "ok"

\* the number of time tokens of a token list, and the position of the last
TimeTokenCount(raw) == (Len(raw) + 1) \div 3
LastTimeToken(raw) == 3 * TimeTokenCount(raw) - 1

\* C1: a scan() made while no setup_scan() has completed raises
\* not_set_up_exception, sends nothing to the transport and leaves setup,
\* first_scan, last_scan_result and channels as they were; and setup becomes
\* true only by a setup_scan() that returns normally.
C1_ScanNeedsSetup ==
    /\ ~setup
    /\ [][(ScanStep /\ ~setup) =>
            /\ call'.status = "not_set_up_exception"
            /\ sent' = << >>
            /\ UNCHANGED <<setup, first_scan, last_scan_result, channels>>]_vars
    /\ [][(~setup /\ setup') =>
            (call'.op = "setup_scan" /\ call'.status = "ok")]_vars

\* a scan() was rejected although channels are defined and a setup_scan() was
\* tried (it failed on the transport)
C1_Witness ==
    /\ call.op = "scan" /\ call.status = "not_set_up_exception"
    /\ channels # << >> /\ list_of_channels_str # "" /\ ~setup

\* C2: a scan that returns a ScanResult has as many readings as channels and
\* every channel id is a key of the readings.
C2_ReadingsMatchChannels ==
    ScanReturned =>
        LET r == last_scan_result[1]
        IN  /\ Cardinality(DOMAIN r.readings) = Len(r.channels)
            /\ \A i \in DOMAIN r.channels : r.channels[i].id \in DOMAIN r.readings

\* C3: in automatic mode all Measurements of one ScanResult carry the same
\* time (a consequence of the claim: one elapsed time is computed once per
\* scan and applied to every channel).
C3_OneElapsedTimePerScan ==
    (ScanReturned /\ ~call.user_timestamp) =>
        LET r == last_scan_result[1]
        IN  \A a, b \in DOMAIN r.readings : r.readings[a].time = r.readings[b].time

\* C4 as stated: on the first automatic scan of a session with one channel,
\* the recorded time is the device-time token (rounded) and device_time is
\* that token.
C4_FirstScanTimeIsToken ==
    (ScanReturned /\ call.path = "first" /\ Len(channels) = 1
        /\ last_scan_result[1].readings # << >>) =>
        LET r == last_scan_result[1]
            t == convert_to_float(r.raw_result[2])
        IN  /\ r.readings[channels[1].id].time = round(t, call.rounding)
            /\ r.device_time = t

\* C4 amended: on the first automatic scan of a session every recorded time is
\* 0, and, once a time token was decoded, device_time is the last time token
\* of the reply, 1e-6 standing for a token that reads 0.
C4_FirstScanTimeIsZero ==
    (ScanReturned /\ call.path = "first") =>
        LET r == last_scan_result[1]
            t == convert_to_float(r.raw_result[LastTimeToken(r.raw_result)])
        IN  /\ \A k \in DOMAIN r.readings : r.readings[k].time = 0
            /\ r.timestamp = 0
            /\ TimeTokenCount(r.raw_result) > 0 =>
                  r.device_time = IF t = 0 THEN MinDeviceTime ELSE t

\* a first automatic scan of one channel returned a reading whose time token
\* is not zero
C4_Witness ==
    /\ ScanReturned /\ call.path = "first" /\ Len(channels) = 1
    /\ last_scan_result[1].readings # << >>
    /\ convert_to_float(last_scan_result[1].raw_result[2]) = 1000000
    /\ last_scan_result[1].device_time = 1000000

\* C5: an automatic scan that is not the first is decoded with the baseline
\* device_time - timestamp of the result before it, and the elapsed time it
\* records is its device-time token minus that baseline.  Stated for replies
\* of exactly three tokens per channel, before and now.
C5_BaselineHandoff ==
    [][(ScanStep /\ call'.status = "ok" /\ call'.path = "former"
          /\ Len(last_scan_result[1].raw_result) = 3 * Len(channels)
          /\ Len(last_scan_result'[1].raw_result) = 3 * Len(channels)) =>
            LET old == last_scan_result[1]
                new == last_scan_result'[1]
                t   == convert_to_float(new.raw_result[2])
            IN  /\ call'.passed = old.device_time - old.timestamp
                /\ new.timestamp = t - call'.passed
                /\ \A k \in DOMAIN new.readings :
                      new.readings[k].time = round(t - call'.passed, call'.rounding)]_vars

\* C6: in explicit mode every Measurement of the scan carries the timestamp
\* argument rounded to the rounding argument.
C6_ExplicitTimeStamped ==
    (ScanReturned /\ call.timestamp # 0) =>
        \A k \in DOMAIN last_scan_result[1].readings :
            last_scan_result[1].readings[k].time = round(call.timestamp, call.rounding)

\* an explicit-mode scan after another scan returned two readings whose time
\* tokens differ, and the rounding changed the timestamp
C6_Witness ==
    /\ ScanReturned /\ call.timestamp # 0 /\ nscans = 2
    /\ Cardinality(DOMAIN last_scan_result[1].readings) = 2
    /\ last_scan_result[1].raw_result[2] # last_scan_result[1].raw_result[5]
    /\ round(call.timestamp, call.rounding) # call.timestamp

\* C7: after an explicit-mode scan device_time is the last device-time token
\* of the reply.
C7_ExplicitRecordsDeviceClock ==
    (ScanReturned /\ call.user_timestamp
        /\ TimeTokenCount(last_scan_result[1].raw_result) > 0
        /\ HasNumber(last_scan_result[1].raw_result[LastTimeToken(last_scan_result[1].raw_result)])) =>
        last_scan_result[1].device_time =
            convert_to_float(last_scan_result[1].raw_result[LastTimeToken(last_scan_result[1].raw_result)])

\* C8: a scan() that raises leaves setup, first_scan, last_scan_result and
\* channels as they were.
C8_FailedScanKeepsState ==
    [][(ScanStep /\ call'.status # "ok") =>
            UNCHANGED <<setup, first_scan, last_scan_result, channels>>]_vars

\* C9: a scan returns a ScanResult only for a reply of exactly three tokens
\* per channel whose value and time tokens all hold a number.
C9_MalformedReplyFails ==
    ScanReturned =>
        LET r == last_scan_result[1]
        IN  /\ Len(r.raw_result) = 3 * Len(r.channels)
            /\ \A i \in DOMAIN r.raw_result :
                  (i % 3 # 0) => HasNumber(r.raw_result[i])

\* C10: once setup_scan() has succeeded no operation changes channels.
C10_SetupLocksChannels ==
    [][setup => channels' = channels]_vars

\* the number of command templates of the channels before the i-th
RECURSIVE TemplatesBefore(_)
TemplatesBefore(i) ==
    IF i <= 1 THEN 0
    ELSE TemplatesBefore(i - 1) + Len(channels[i - 1].measurement_type.setup_commands)

\* the ids of the first i channels, comma separated, in definition order
RECURSIVE IdsUpTo(_)
IdsUpTo(i) ==
    IF i <= 1 THEN ToString(channels[1].id)
    ELSE IdsUpTo(i - 1) \o "," \o ToString(channels[i].id)

\* sent holds the whole write sequence of a setup_scan over the channels
SetupWritten ==
    LET n == Len(channels)
        total == TemplatesBefore(n + 1)
    IN  /\ n > 0
        /\ Len(sent) = 3 + total + 4
        /\ \A i \in 1..n :
              LET templates == channels[i].measurement_type.setup_commands
              IN  \A j \in 1..Len(templates) :
                     sent[3 + TemplatesBefore(i) + j] =
                        templates[j] \o ",(@" \o ToString(channels[i].id) \o ")"
        /\ sent[3 + total + 1] = "SAMP:COUN " \o ToString(n)
        /\ sent[3 + total + 2] = "ROUT:SCAN (@" \o IdsUpTo(n) \o ")"

\* C11: a setup_scan over a non-empty channel list that returns has written
\* one qualified command per (channel, template) pair, channel by channel in
\* definition order and template by template within a channel, each
\* qualified with that channel's id, then the sample count (the number of
\* channels) and the scan list (the ids in definition order); setup becomes
\* TRUE only in such a step, and a setup_scan that fails leaves it as it was.
C11_SetupWritesPerChannel ==
    [][ /\ (call'.op = "setup_scan" /\ call'.status = "ok")
              => (SetupWritten' /\ setup')
        /\ (call'.op = "setup_scan" /\ call'.status # "ok") => setup' = setup
        /\ (~setup /\ setup')
              => (call'.op = "setup_scan" /\ call'.status = "ok" /\ SetupWritten')
      ]_vars

\* two channels with different ids and three templates each were set up
C11_Witness ==
    /\ call.op = "setup_scan" /\ call.status = "ok" /\ setup
    /\ Len(channels) = 2
    /\ channels[1].id # channels[2].id
    /\ Len(sent) = 13

\* C12: a channel's unit is fixed when define_channels creates it: a
\* set_temperature_units call leaves every channel defined so far as it is,
\* unit included, and define_channels gives the channels it appends, and only
\* those, the unit in force at that moment.
C12_UnitCapturedAtDefinition ==
    [][ /\ call'.op = "set_temperature_units" => channels' = channels
        /\ call'.op = "define_channels" =>
              /\ Len(channels') > Len(channels)
              /\ SubSeq(channels', 1, Len(channels)) = channels
              /\ \A i \in (Len(channels) + 1)..Len(channels') :
                    channels'[i].measurement_type.function = "TEMP"
                       => channels'[i].unit = temperature_units
      ]_vars

\* temperature channels defined under "C", the unit changed to "K" afterwards
C12_Witness ==
    /\ call.op = "set_temperature_units" /\ call.status = "ok"
    /\ temperature_units = "K"
    /\ Len(channels) = 2
    /\ \A i \in 1..2 : /\ channels[i].measurement_type.function = "TEMP"
                       /\ channels[i].unit = "C"

\* C14: set_temperature_units(u) raises invalid_unit_exception for every u
\* that is none of C, F, K in either case, and then neither changes the stored
\* unit nor writes to the transport; for a valid u it stores the upper-case
\* unit and, the transport accepting the write, forwards "UNIT:TEMP <unit>".
C14_UnitValidated ==
    [][ call'.op = "set_temperature_units" =>
          LET u == call'.arg
              expected == CASE u \in {"c", "C"} -> "C"
                            [] u \in {"f", "F"} -> "F"
                            [] u \in {"k", "K"} -> "K"
                            [] OTHER -> ""
          IN  IF expected = ""
              THEN /\ call'.status = "invalid_unit_exception"
                   /\ temperature_units' = temperature_units
                   /\ sent' = << >>
              ELSE /\ call'.status # "invalid_unit_exception"
                   /\ temperature_units' = expected
                   /\ call'.status = "ok" => sent' = << "UNIT:TEMP " \o expected >>
      ]_vars

\* a lower-case unit was accepted and forwarded in upper case
C14_Witness ==
    /\ call.op = "set_temperature_units" /\ call.status = "ok"
    /\ call.arg = "c"
    /\ temperature_units = "C"
    /\ sent = << "UNIT:TEMP C" >>

\* C13: setup_scan with no channel defined raises no_channels_exception,
\* writes nothing and leaves setup FALSE, and a scan that follows it raises
\* not_set_up_exception without querying the device.
C13_EmptySetupFails ==
    [][ /\ (call'.op = "setup_scan" /\ channels = << >>)
              => /\ call'.status = "no_channels_exception"
                 /\ sent' = << >>
                 /\ ~setup'
                 /\ channels' = << >>
        /\ (ScanStep /\ call.op = "setup_scan"
                     /\ call.status = "no_channels_exception")
              => /\ call'.status = "not_set_up_exception"
                 /\ sent' = << >>
                 /\ UNCHANGED last_scan_result
      ]_vars

\* setup_scan was refused for want of channels
C13_Witness ==
    /\ call.op = "setup_scan" /\ call.status = "no_channels_exception"
    /\ channels = << >>
    /\ sent = << >>
    /\ ~setup

\* C15: disconnect is terminal: the operation that follows a disconnect
\* sends nothing to the transport.
C15_DisconnectTerminal ==
    [][ (call.op = "disconnect" /\ call.status = "ok") => sent' = << >> ]_vars

\* C16: setup_scan is idempotent: called again on a Multimeter that is set up
\* for its present channel list, it writes the whole command sequence of
\* that list again (the very sequence of the call before, when the two calls
\* are consecutive) and leaves channels, setup, first_scan,
\* last_scan_result and temperature_units as they were.
C16_SetupIdempotent ==
    [][ ( /\ call'.op = "setup_scan" /\ call'.status = "ok"
          /\ setup
          /\ list_of_channels_str = ListOfChannelsStr(channels) )
        => /\ UNCHANGED <<channels, setup, first_scan, last_scan_result,
                          temperature_units, list_of_channels_str>>
           /\ SetupWritten'
           /\ (call.op = "setup_scan" /\ call.status = "ok") => sent' = sent
      ]_vars

\* setup_scan returned after a scan of the one-channel list had returned: a
\* repeated call on the same list, the session under way
C16_Witness ==
    /\ call.op = "setup_scan" /\ call.status = "ok"
    /\ Len(channels) = 1
    /\ last_scan_result # << >>
    /\ ~first_scan
    /\ setup

-----------------------------------------------------------------------------
(* ScanResult.make_csv_row, ScanResult.make_csv_header *)

\* Text the csv methods build is, like the reply, a sequence of
\* one-character strings.
DigitChar(d) == <<"0", "1", "2", "3", "4", "5", "6", "7", "8", "9">>[d + 1]

\* str(n) of an int n >= 0
RECURSIVE IntChars(_)
IntChars(n) ==
    IF n < 10 THEN << DigitChar(n) >>
    ELSE IntChars(n \div 10) \o << DigitChar(n % 10) >>

\* the w decimal digits of f, leading zeros kept
RECURSIVE FracChars(_, _)
FracChars(f, w) ==
    IF w = 0 THEN << >>
    ELSE FracChars(f \div 10, w - 1) \o << DigitChar(f % 10) >>

\* trailing zeros dropped, one digit kept
RECURSIVE TrimZeros(_)
TrimZeros(s) ==
    IF Len(s) > 1 /\ s[Len(s)] = "0" THEN TrimZeros(SubSeq(s, 1, Len(s) - 1))
    ELSE s

\* str(x) of a float x in the positional form ("2.5", "7.0", "-1.5") that
\* str uses for 0 and for magnitudes from 0.0001 up
FloatChars(x) ==
    LET a == IF x < 0 THEN -x ELSE x
    IN  (IF x < 0 THEN <<"-">> ELSE << >>)
        \o IntChars(a \div Pow10(FracDigits))
        \o <<".">>
        \o TrimZeros(FracChars(a % Pow10(FracDigits), FracDigits))

\* str(channel.unit): the unit names of the model are one character long
UnitChars(unit) == IF unit = "" THEN << >> ELSE << unit >>

\* string[:-1] + "\n"
EndLine(string) ==
    (IF string = << >> THEN << >> ELSE SubSeq(string, 1, Len(string) - 1))
    \o << "\n" >>

\* the loop of make_csv_row over channels i..: the string so far, or the
\* KeyError of self.readings[channel.id]
RECURSIVE CsvRowFrom(_, _, _)
CsvRowFrom(result, i, string) ==
    IF i > Len(result.channels) THEN [error |-> "", text |-> string]
    ELSE IF result.channels[i].id \notin DOMAIN result.readings
    THEN [error |-> "KeyError", text |-> << >>]
    ELSE CsvRowFrom(result, i + 1,
            string \o FloatChars(result.readings[result.channels[i].id].time)
                   \o <<",">>
                   \o FloatChars(result.readings[result.channels[i].id].value)
                   \o <<",">>)

\* ScanResult.make_csv_row
make_csv_row(result) ==
    LET r == CsvRowFrom(result, 1, << >>)
    IN  IF r.error # "" THEN r ELSE [error |-> "", text |-> EndLine(r.text)]

\* the loop of make_csv_header over channels i..
RECURSIVE CsvHeaderFrom(_, _, _)
CsvHeaderFrom(result, i, string) ==
    IF i > Len(result.channels) THEN string
    ELSE CsvHeaderFrom(result, i + 1,
            string \o <<"C", "h", "a", "n", "n", "e", "l", " ">>
                   \o IntChars(result.channels[i].id)
                   \o <<" ", "T", "i", "m", "e", " ", "(", "s", ")", ",">>
                   \o <<"C", "h", "a", "n", "n", "e", "l", " ">>
                   \o IntChars(result.channels[i].id)
                   \o <<" ", "V", "a", "l", "u", "e", " ", "(">>
                   \o UnitChars(result.channels[i].unit)
                   \o <<")", ",">>)

\* ScanResult.make_csv_header
make_csv_header(result) == EndLine(CsvHeaderFrom(result, 1, << >>))

-----------------------------------------------------------------------------

\* text is one line, ended by its only newline, of n comma-separated fields
\* with no comma before the newline
OneLineOfFields(text, n) ==
    /\ Len(text) > 0
    /\ text[Len(text)] = "\n"
    /\ \A i \in 1..(Len(text) - 1) : text[i] # "\n"
    /\ Len(text) > 1 => text[Len(text) - 1] # ","
    /\ Len(split(SubSeq(text, 1, Len(text) - 1))) = n

\* C17: for every ScanResult a scan returns, make_csv_row and
\* make_csv_header each give one newline-terminated line of exactly
\* 2 * len(channels) comma-separated fields with no trailing comma.
C17_CsvLines ==
    ScanReturned =>
        LET r == last_scan_result[1]
        IN  /\ make_csv_row(r).error = ""
            /\ OneLineOfFields(make_csv_row(r).text, 2 * Len(r.channels))
            /\ OneLineOfFields(make_csv_header(r), 2 * Len(r.channels))

\* C18: the device_time of every ScanResult an automatic-mode scan returns
\* is nonzero (a device time decoded as 0 is replaced by MinDeviceTime).
C18_DeviceClockNonzero ==
    (ScanReturned /\ ~call.user_timestamp) => last_scan_result[1].device_time # 0

\* the device time at which the clock of a result read zero: the baseline
\* the next automatic scan hands to the decoder
Baseline(result) == result.device_time - result.timestamp

\* C19: one channel, automatic scans, nonzero device-time tokens: the first
\* scan records time 0 and the device time of its token, and every later
\* scan is handed the baseline of the result before it and leaves the
\* baseline as it was; by induction the baseline of every scan after the
\* first is the first scan's token and the unrounded time of scan n is
\* token_n - token_1, not the time since scan n - 1.
C19_BaselineStaysAtFirstToken ==
    [][ ( /\ ScanStep /\ call'.status = "ok" /\ ~call'.user_timestamp
          /\ Len(last_scan_result'[1].channels) = 1 )
        => LET new == last_scan_result'[1]
               token == convert_to_float(new.raw_result[2])
           IN  /\ new.device_time = token
               /\ IF call'.path = "first"
                  THEN new.timestamp = 0 /\ Baseline(new) = token
                  ELSE LET old == last_scan_result[1]
                       IN  Len(old.channels) = 1 =>
                              /\ call'.passed = Baseline(old)
                              /\ new.timestamp = token - Baseline(old)
                              /\ Baseline(new) = Baseline(old)
      ]_vars

\* the third scan of a one-channel session: its token reads 2.5, the first
\* scan's read 1, the time recorded is 1.5
C19_Witness ==
    /\ ScanReturned /\ call.path = "former" /\ nscans = 3
    /\ Len(last_scan_result[1].channels) = 1
    /\ call.passed = 1000000
    /\ last_scan_result[1].device_time = 2500000
    /\ last_scan_result[1].timestamp = 1500000

====
